---- MODULE Spec2Model ----
(***************************************************************************)
(* BetSync prototype (src/app.py): odds normalisation, record cleaning,    *)
(* aggregate metrics, risk scoring and recommendations.                    *)
(*                                                                         *)
(* Numbers.  Every number of the script is a Python float, an IEEE-754     *)
(* double, and is modelled as one:                                         *)
(*   [k |-> "fin", s, e, m]   the value s * m * 2^e, s = 1 or -1, m a      *)
(*                            whole number of exactly 53 bits              *)
(*   [k |-> "zero"]           0.0                                          *)
(*   [k |-> "inf", s]         +inf and -inf                                *)
(*   [k |-> "nan"]            NaN (np.nan, pd.NaT and a missing cell)      *)
(* Add, Sub, Mul, Div and Sqrt return the double nearest to the exact      *)
(* result, a tie going to the even mantissa, as the hardware does.  The    *)
(* 53-bit mantissa is held as a whole number in base 2^14 (least limb      *)
(* first).  Not modelled: the sign of zero, subnormal numbers and          *)
(* overflow, none of which the values of the script reach.                 *)
(*                                                                         *)
(* Cells.  pd.read_csv turns a column whose cells are all numbers into a   *)
(* numeric column ("+110" becomes 110) and leaves any other column as      *)
(* text; dropna removes NaN / NaT / missing cells only.                    *)
(***************************************************************************)
EXTENDS Integers, Sequences, FiniteSets, TLC

\* ------------------------------------------------------------------------
\* Whole numbers of any size: a sequence of limbs in base 2^14, least limb
\* first, no leading zero limb; <<>> is 0.
\* ------------------------------------------------------------------------
Base == 2 ^ 14

\* limb i of x, 0 past its end
Limb(x, i) == IF 1 <= i /\ i <= Len(x) THEN x[i] ELSE 0

\* the sequence f, element by element
Tuple(f) == SubSeq(f, 1, Len(f))

MinOf(a, b) == IF a < b THEN a ELSE b

\* x without its leading zero limbs
Trim(x) ==
    IF x = <<>> \/ x[Len(x)] # 0 THEN x
    ELSE SubSeq(x, 1, CHOOSE n \in 0..Len(x) :
                          /\ n = 0 \/ x[n] # 0
                          /\ \A k \in (n + 1)..Len(x) : x[k] = 0)

\* one pass of carries: every column keeps its low 14 bits and hands the
\* rest to the next
Pass(c) ==
    IF c = <<>> THEN c
    ELSE Tuple([i \in 1..(Len(c) + 1) |->
                   (Limb(c, i) % Base) + (Limb(c, i - 1) \div Base)])

\* the carry into column i of columns e that are at most 2^14 each
CarryIn(e, i) ==
    IF \E j \in 1..(i - 1) :
           /\ e[j] = Base
           /\ \A k \in (j + 1)..(i - 1) : e[k] >= Base - 1
    THEN 1 ELSE 0

LastCarry(e) ==
    IF e = <<>> THEN e
    ELSE Trim(Tuple([i \in 1..Len(e) |-> (e[i] + CarryIn(e, i)) % Base]))

\* the number whose columns (each below 2^31) are cols: three passes leave
\* columns of at most 2^14, and a last carry of 1 runs through columns of
\* 2^14 - 1
Carry(cols) == LastCarry(Pass(Pass(Pass(cols))))

BAdd(x, y) ==
    IF x = <<>> THEN y
    ELSE IF y = <<>> THEN x
    ELSE Carry(Tuple([i \in 1..(IF Len(x) < Len(y) THEN Len(y) ELSE Len(x)) |->
                         Limb(x, i) + Limb(y, i)]))

\* the borrow out of the columns below i of the limb differences d
BorrowIn(d, i) ==
    IF \E j \in 1..(i - 1) :
           /\ d[j] < 0
           /\ \A k \in (j + 1)..(i - 1) : d[k] <= 0
    THEN 1 ELSE 0

Borrow(d) == Trim(Tuple([i \in 1..Len(d) |-> (d[i] - BorrowIn(d, i)) % Base]))

\* x - y for x >= y
BSub(x, y) ==
    IF y = <<>> \/ x = <<>> THEN x
    ELSE Borrow(Tuple([i \in 1..Len(x) |-> x[i] - Limb(y, i)]))

\* -1, 0 or 1 as x is below, equal to or above y: decided by the highest
\* limb where they differ
BCmp(x, y) ==
    IF Len(x) # Len(y) THEN (IF Len(x) < Len(y) THEN -1 ELSE 1)
    ELSE IF x = y THEN 0
    ELSE IF \E i \in 1..Len(x) :
                /\ x[i] < y[i]
                /\ \A k \in (i + 1)..Len(x) : x[k] = y[k]
         THEN -1 ELSE 1

\* the product of x and a y of at most four limbs
BMul(x, y) ==
    IF x = <<>> \/ y = <<>> THEN <<>>
    ELSE Carry(Tuple([k \in 1..(Len(x) + Len(y)) |->
             Limb(y, 1) * Limb(x, k) + Limb(y, 2) * Limb(x, k - 1)
                 + Limb(y, 3) * Limb(x, k - 2) + Limb(y, 4) * Limb(x, k - 3)]))

\* x * k for 0 <= k < 2^14
BMulSmall(x, k) ==
    IF x = <<>> \/ k = 0 THEN <<>>
    ELSE Carry(Tuple([i \in 1..Len(x) |-> x[i] * k]))

\* x * p * Base^q for a power of two p below Base
ShlBy(x, q, p) ==
    Trim(Tuple([i \in 1..(Len(x) + q + 1) |->
        (Limb(x, i - q) % (Base \div p)) * p + (Limb(x, i - q - 1) \div (Base \div p))]))

\* x * 2^n
BShl(x, n) == IF x = <<>> \/ n = 0 THEN x ELSE ShlBy(x, n \div 14, 2 ^ (n % 14))

\* floor(x / (p * Base^q)) for a power of two p below Base
ShrBy(x, q, p) ==
    IF Len(x) <= q THEN <<>>
    ELSE Trim(Tuple([i \in 1..(Len(x) - q) |->
                  (x[i + q] \div p) + (Limb(x, i + q + 1) % p) * (Base \div p)]))

\* floor(x / 2^n)
BShr(x, n) == IF n = 0 THEN x ELSE ShrBy(x, n \div 14, 2 ^ (n % 14))

\* whether one of the n lowest bits of x is set
BLowNonzero(x, n) ==
    \E i \in 1..Len(x) :
        /\ x[i] # 0
        /\ \/ i <= n \div 14
           \/ i = n \div 14 + 1 /\ x[i] % (2 ^ (n % 14)) # 0

\* bit n of x
BBit(x, n) == (Limb(x, n \div 14 + 1) \div (2 ^ (n % 14))) % 2

\* the number of bits of v
IntBits(v) == Cardinality({k \in 0..30 : 2 ^ k <= v})

BBitLen(x) == IF x = <<>> THEN 0 ELSE 14 * (Len(x) - 1) + IntBits(x[Len(x)])

\* the whole number of at most two limbs b, as an integer
ToInt(b) == Limb(b, 1) + Base * Limb(b, 2)

\* Long division of u by v (its top limb at least 2^13), limb i of u
\* downwards: q the quotient limbs so far, r the running remainder.  The
\* quotient limb is estimated from the two top limbs of the remainder and is
\* at most two too large.
RECURSIVE DivStep(_, _, _, _, _)

DivNext(u, v, i, q, r1, d) ==
    DivStep(u, v, i - 1, <<d>> \o q, BSub(r1, BMulSmall(v, d)))

QuotLimb(v, r1, est, p) ==
    IF BCmp(p, r1) <= 0 THEN est
    ELSE IF BCmp(BSub(p, v), r1) <= 0 THEN est - 1
    ELSE est - 2

DivTry(u, v, i, q, r1, est) ==
    DivNext(u, v, i, q, r1, QuotLimb(v, r1, est, BMulSmall(v, est)))

DivLimb(u, v, i, q, r1) ==
    DivTry(u, v, i, q, r1,
           MinOf((Limb(r1, Len(v) + 1) * Base + Limb(r1, Len(v))) \div v[Len(v)],
                 Base - 1))

DivStep(u, v, i, q, r) ==
    IF i = 0 THEN [q |-> Trim(q), rnz |-> r # <<>>]
    ELSE IF r = <<>> /\ u[i] = 0 THEN DivStep(u, v, i - 1, <<0>> \o q, r)
    ELSE DivLimb(u, v, i, q, Trim(<<u[i]>> \o r))

DivNormal(un, vn) ==
    DivStep(un, vn, Len(un) - Len(vn) + 1, <<>>,
            Trim(SubSeq(un, Len(un) - Len(vn) + 2, Len(un))))

\* quotient of u by v # 0, and whether a remainder is left
BDivMod(u, v) ==
    IF BCmp(u, v) < 0 THEN [q |-> <<>>, rnz |-> u # <<>>]
    ELSE DivNormal(BShl(u, 14 - IntBits(v[Len(v)])), BShl(v, 14 - IntBits(v[Len(v)])))

\* floor of the square root of t by Newton's iteration from g >= sqrt(t)
RECURSIVE ISqrtFrom(_, _)
ISqrtNext(t, g, y) == IF y >= g THEN g ELSE ISqrtFrom(t, y)
ISqrtFrom(t, g) == ISqrtNext(t, g, (g + t \div g) \div 2)

RECURSIVE NewtonSqrt(_, _)
NewtonNext(n, x, y) == IF BCmp(y, x) >= 0 THEN x ELSE NewtonSqrt(n, y)
NewtonSqrt(n, x) == NewtonNext(n, x, BShr(BAdd(x, BDivMod(n, x).q), 1))

\* floor of the square root of an n of eight limbs
BSqrt(n) == NewtonSqrt(n, Carry(<<0, 0, 0, ISqrtFrom(n[8] * Base + n[7], Base) + 1>>))

\* ------------------------------------------------------------------------
\* Doubles.  Round(s, n, e, sticky) is the double nearest to s * n * 2^e
\* (a little more than that when sticky), a tie going to the even mantissa.
\* ------------------------------------------------------------------------
NaN == [k |-> "nan", s |-> 1, e |-> 0, m |-> <<>>]
Zero == [k |-> "zero", s |-> 1, e |-> 0, m |-> <<>>]
Infinity(s) == [k |-> "inf", s |-> IF s < 0 THEN -1 ELSE 1, e |-> 0, m |-> <<>>]
Fin(s, e, m) == [k |-> "fin", s |-> s, e |-> e, m |-> m]

IsNaN(x) == x.k = "nan"
IsInf(x) == x.k = "inf"
IsFinite(x) == x.k \in {"zero", "fin"}
IsZero(x) == x.k = "zero"
Sgn(x) == IF x.k \in {"zero", "nan"} THEN 0 ELSE x.s

\* whether dropping the sh lowest bits of n rounds up: the first dropped bit
\* is set and the rest (or sticky) is not nothing, or the kept part is odd
RoundsUp(n, sh, sticky) ==
    /\ BBit(n, sh - 1) = 1
    /\ (sticky \/ BLowNonzero(n, sh - 1) \/ BBit(n, sh) = 1)

\* a mantissa of 54 bits after rounding up is a power of two
Renormal(s, e, m1) ==
    IF BBitLen(m1) = 54 THEN Fin(s, e + 1, BShr(m1, 1)) ELSE Fin(s, e, m1)

RoundBy(s, n, e, sticky, sh) ==
    IF sh <= 0 THEN Fin(s, e + sh, BShl(n, -sh))
    ELSE Renormal(s, e + sh,
                  IF RoundsUp(n, sh, sticky) THEN BAdd(BShr(n, sh), <<1>>)
                  ELSE BShr(n, sh))

Round(s, n, e, sticky) ==
    IF n = <<>> THEN Zero ELSE RoundBy(s, n, e, sticky, BBitLen(n) - 53)

\* float(i)
FromInt(i) ==
    Round(IF i < 0 THEN -1 ELSE 1, Carry(<<IF i < 0 THEN -i ELSE i>>), 0, FALSE)

Neg(x) == IF x.k \in {"fin", "inf"} THEN [x EXCEPT !.s = -x.s] ELSE x
FAbs(x) == IF x.k \in {"fin", "inf"} THEN [x EXCEPT !.s = 1] ELSE x

\* s * (a - b) * 2^e, rounded
SubRound(s, a, b, e, c) ==
    IF c >= 0 THEN Round(s, BSub(a, b), e, FALSE) ELSE Round(-s, BSub(b, a), e, FALSE)

\* big.s * a * 2^small.e + small, rounded
AddAligned(s, a, small) ==
    IF s = small.s THEN Round(s, BAdd(a, small.m), small.e, FALSE)
    ELSE SubRound(s, a, small.m, small.e, BCmp(a, small.m))

\* big + small for big.e >= small.e; a small below the last bit of big by
\* more than seven bits leaves it unchanged
AddOrdered(big, small) ==
    IF big.e - small.e > 60 THEN big
    ELSE AddAligned(big.s, BShl(big.m, big.e - small.e), small)

\* x + y of two finite non-zero doubles: exact, then rounded
AddFin(x, y) == IF x.e >= y.e THEN AddOrdered(x, y) ELSE AddOrdered(y, x)

Add(x, y) ==
    IF IsNaN(x) \/ IsNaN(y) THEN NaN
    ELSE IF IsInf(x) /\ IsInf(y) THEN (IF x.s = y.s THEN x ELSE NaN)
    ELSE IF IsInf(x) THEN x
    ELSE IF IsInf(y) THEN y
    ELSE IF IsZero(x) THEN y
    ELSE IF IsZero(y) THEN x
    ELSE AddFin(x, y)

Sub(x, y) == Add(x, Neg(y))

Mul(x, y) ==
    IF IsNaN(x) \/ IsNaN(y) THEN NaN
    ELSE IF IsInf(x) \/ IsInf(y)
         THEN (IF IsZero(x) \/ IsZero(y) THEN NaN ELSE Infinity(x.s * y.s))
    ELSE IF IsZero(x) \/ IsZero(y) THEN Zero
    ELSE Round(x.s * y.s, BMul(x.m, y.m), x.e + y.e, FALSE)

\* the quotient qr of the mantissas, rounded
DivRound(s, e, qr) == Round(s, qr.q, e, qr.rnz)

Div(x, y) ==
    IF IsNaN(x) \/ IsNaN(y) THEN NaN
    ELSE IF IsInf(y) THEN (IF IsInf(x) THEN NaN ELSE Zero)
    ELSE IF IsZero(y) THEN (IF IsZero(x) THEN NaN ELSE Infinity(x.s))
    ELSE IF IsInf(x) THEN Infinity(x.s * y.s)
    ELSE IF IsZero(x) THEN Zero
    ELSE DivRound(x.s * y.s, x.e - y.e - 56, BDivMod(BShl(x.m, 56), y.m))

\* the root r of n, rounded
SqrtRound(n, r, e) == Round(1, r, e, BCmp(BMul(r, r), n) # 0)

\* the square root of n * 2^(2e)
SqrtOf(n, e) == SqrtRound(n, BSqrt(n), e)

\* the shift that makes the exponent even and the mantissa eight limbs
SqrtShift(e) == IF (e - 58) % 2 = 0 THEN 58 ELSE 59

Sqrt(x) ==
    IF IsNaN(x) \/ IsZero(x) THEN x
    ELSE IF x.s < 0 THEN NaN
    ELSE IF IsInf(x) THEN x
    ELSE SqrtOf(BShl(x.m, SqrtShift(x.e)), (x.e - SqrtShift(x.e)) \div 2)

\* x < y of two doubles of the same sign, neither zero nor NaN
LtSameSign(x, y) ==
    IF IsInf(x) \/ IsInf(y) THEN (IF x.s > 0 THEN ~IsInf(x) ELSE ~IsInf(y))
    ELSE IF x.e # y.e THEN (IF x.s > 0 THEN x.e < y.e ELSE x.e > y.e)
    ELSE (IF x.s > 0 THEN BCmp(x.m, y.m) < 0 ELSE BCmp(x.m, y.m) > 0)

Lt(x, y) ==
    /\ ~IsNaN(x)
    /\ ~IsNaN(y)
    /\ IF Sgn(x) # Sgn(y) THEN Sgn(x) < Sgn(y)
       ELSE IF Sgn(x) = 0 THEN FALSE
       ELSE LtSameSign(x, y)
Le(x, y) == ~IsNaN(x) /\ ~IsNaN(y) /\ ~Lt(y, x)
Gt(x, y) == Lt(y, x)
Ge(x, y) == Le(y, x)

\* n * 2^e to the nearest whole number, a tie to the even one
NearestInt(n, e) ==
    IF e >= 0 THEN ToInt(BShl(n, e))
    ELSE ToInt(BShr(n, -e)) + (IF RoundsUp(n, -e, FALSE) THEN 1 ELSE 0)

\* round(x, 1) of a finite x with 0 <= x < 2^17, in tenths: the exact value
\* of the double times ten, to the nearest whole number, a tie to the even one
RoundTenths(x) == IF IsZero(x) THEN 0 ELSE NearestInt(BMulSmall(x.m, 10), x.e)

\* The double nearest to n / d, for whole numbers n and d # 0: the value of
\* a literal such as 0.28 (28 / 100) or 1e-9 (1 / 10^9).
Flt(n, d) == Div(FromInt(n), FromInt(d))

One == FromInt(1)
Hundred == FromInt(100)

\* ------------------------------------------------------------------------
\* Raw cell texts.  A text is str(x).strip(): an optional sign followed by a
\* body, which is a numeral (h hundredths), "inf", "nan", a non-numeric
\* word, or nothing at all ("", "+", "-").
\* ------------------------------------------------------------------------
Txt(sign, kind, h) == [sign |-> sign, kind |-> kind, h |-> h]
Num(sign, h) == Txt(sign, "num", h)

StartsWith(s, c) == s.sign = c
\* s[1:] of a text that starts with a sign character
DropFirst(s) == [s EXCEPT !.sign = ""]

\* Outcome of a Python expression: a value, or a raised exception.
Ok(v) == [exc |-> "", val |-> v]
Raise(e) == [exc |-> e, val |-> NaN]

\* float(s): ValueError unless s is a numeral, inf or nan with optional
\* sign; a numeral gives the double nearest to it.
SignOf(s) == IF s.sign = "-" THEN -1 ELSE 1

FloatOf(s) ==
    CASE s.kind = "num" -> Ok(Flt(SignOf(s) * s.h, 100))
      [] s.kind = "inf" -> Ok(Infinity(SignOf(s)))
      [] s.kind = "nan" -> Ok(NaN)
      [] OTHER -> Raise("ValueError")

\* Python float division: a zero divisor raises.
PyTrueDiv(x, y) ==
    IF IsZero(y) THEN Raise("ZeroDivisionError") ELSE Ok(Div(x, y))

\* try: <outcome>  except: return np.nan
TryExceptNaN(o) == IF o.exc # "" THEN Ok(NaN) ELSE o

DecimalLow == Flt(101, 100)
DecimalHigh == FromInt(100)

\* 1.0 + (a / 100.0)
PlusHundredths(a) == Add(One, Div(a, Hundred))

\* 1.0 + <outcome of a division>
OnePlus(q) == IF q.exc # "" THEN q ELSE Ok(Add(One, q.val))

\* 1.0 + (100.0 / abs(v))
NegativeOdds(v) == OnePlus(PyTrueDiv(Hundred, FAbs(v)))

\* try: a = float(s[1:]); return 1.0 + (a / 100.0)  except: return np.nan
PlusOdds(a) == IF a.exc # "" THEN Ok(NaN) ELSE Ok(PlusHundredths(a.val))

\* the branches of american_to_decimal below the decimal range (lines 35-49)
AmericanOf(s, v) ==
    IF StartsWith(s, "+") THEN PlusOdds(FloatOf(DropFirst(s)))
    ELSE IF Lt(v, Zero) THEN NegativeOdds(v)
    ELSE IF Ge(v, Hundred) THEN Ok(PlusHundredths(v))
    ELSE Ok(NaN)

ToDecimal_plus_first(s, f) ==
    IF f.exc # "" THEN Ok(NaN)
    ELSE IF StartsWith(s, "+") THEN AmericanOf(s, f.val)
    ELSE IF Le(DecimalLow, f.val) /\ Le(f.val, DecimalHigh) THEN Ok(f.val)
    ELSE AmericanOf(s, f.val)

american_to_decimal_plus_first(s) == ToDecimal_plus_first(s, FloatOf(s))

\* american_to_decimal after v = float(s) (lines 28-49): f is the outcome of
\* float(s)
ToDecimal(s, f) ==
    IF f.exc # "" THEN Ok(NaN)
    ELSE IF Le(DecimalLow, f.val) /\ Le(f.val, DecimalHigh) THEN Ok(f.val)
    ELSE AmericanOf(s, f.val)

american_to_decimal(s) == ToDecimal(s, FloatOf(s))

\* a = float(s); return 1.0 + (100.0 / abs(a))
NegativeOf(a) == IF a.exc # "" THEN a ELSE NegativeOdds(a.val)

american_or_decimal(s) ==
    IF StartsWith(s, "-") THEN TryExceptNaN(NegativeOf(FloatOf(s)))
    ELSE american_to_decimal(s)

\* ------------------------------------------------------------------------
\* The uploaded table.  A row holds the raw cells of the columns the
\* pipeline reads:
\*   Book, MarketType   a name, or "" for a missing cell
\*   OddsPlaced, ClosingOdds   a text (above)
\*   Stake      [kind |-> "num" | "missing" | "text", v |-> integer]
\*   BetTime, EventTime   [kind |-> "dt" | "bad", t |-> minutes]
\*                        (dateutil parses "dt" cells, fails on "bad" ones)
\* ------------------------------------------------------------------------
VARIABLES
    raw,         \* normaliser harness: the text handed to american_or_decimal
    decimal,     \* normaliser harness: its outcome
    pc,          \* position of the script
    columns,     \* df.columns as read by pd.read_csv
    rows,        \* the rows as read by pd.read_csv
    df,          \* the working frame (rows plus derived columns)
    missing,     \* list of missing required columns
    metrics,     \* aggregate metrics
    risks,       \* the seven sub-risks
    risk_score,  \* composite score, in tenths of a point
    recs,        \* triggered advisory strings
    shown        \* messages written to the page (st.error / st.success / st.write)

vars == <<raw, decimal, pc, columns, rows, df, missing, metrics, risks,
          risk_score, recs, shown>>

required ==
    <<"Book", "Sport", "MarketType", "OddsPlaced", "ClosingOdds", "Stake",
      "BetTime", "EventTime">>

AllColumns == {required[i] : i \in 1..Len(required)} \cup {"Result"}

\* ----- pd.read_csv dtype inference (line 93) ----------------------------
\* A cell pandas reads as NA (its default na_values): the empty cell and the
\* texts "nan" and "-nan".
IsNACell(s) ==
    \/ s.sign = "" /\ s.kind = "empty"
    \/ s.sign \in {"", "-"} /\ s.kind = "nan"
\* A cell pandas parses as a number ("+110" is read as 110).
IsNumberCell(s) == s.kind \in {"num", "inf"}
\* A column is numeric when every cell is a number or NA, else it stays text.
OddsColumnNumeric(rs, col) ==
    \A i \in 1..Len(rs) : IsNumberCell(rs[i][col]) \/ IsNACell(rs[i][col])
StakeColumnNumeric(rs) ==
    \A i \in 1..Len(rs) : rs[i].Stake.kind # "text"

\* str(x) of a cell of the frame: NA prints as "nan"; a number of a numeric
\* column prints without its '+'; a cell of a text column prints as typed.
CellStr(numeric, s) ==
    IF IsNACell(s) THEN Txt("", "nan", 0)
    ELSE IF numeric /\ s.sign = "+" THEN DropFirst(s)
    ELSE s

\* ----- parse_dt (lines 62-66) -------------------------------------------
\* A timestamp in minutes, or NaT.
parse_dt(x) == IF x.kind = "dt" THEN FromInt(x.t) ELSE NaN

\* ----- derived columns (lines 101-106) ----------------------------------
OddsOutcome(rs, i, col) ==
    american_or_decimal(CellStr(OddsColumnNumeric(rs, col), rs[i][col]))

\* Whether lines 101-106 raise.  An exception of american_or_decimal escapes
\* .apply; on a frame without rows each .apply gives an empty column of
\* dtype object, the difference of two such columns is of dtype object too,
\* and its .dt accessor (line 105) raises AttributeError.  A frame with rows
\* has datetime columns (NaT where parse_dt failed).
DeriveRaises(rs) ==
    \/ \E i \in 1..Len(rs) :
           \/ OddsOutcome(rs, i, "OddsPlaced").exc # ""
           \/ OddsOutcome(rs, i, "ClosingOdds").exc # ""
    \/ rs = <<>>

\* (ClosingOdds_dec - OddsPlaced_dec) / OddsPlaced_dec * 100.0
CLV_pct_swapped(placed, closing) ==
    Mul(Div(Sub(placed, closing), placed), Hundred)

CLV_pct(placed, closing) ==
    Mul(Div(Sub(closing, placed), placed), Hundred)

\* (EventTime_dt - BetTime_dt).dt.total_seconds() / 3600.0: the difference
\* of two timestamps is exact, in seconds 60 times that in minutes.
LeadHours(bet, event) == Div(Mul(Sub(event, bet), FromInt(60)), FromInt(3600))

\* row i with its derived columns: op and oc the decimal odds, bt and et the
\* parsed times
WithDerived(i, r, op, oc, bt, et) ==
    [src |-> i,
     Book |-> r.Book, MarketType |-> r.MarketType, Stake |-> r.Stake,
     OddsPlaced_dec |-> op, ClosingOdds_dec |-> oc,
     BetTime_dt |-> bt, EventTime_dt |-> et,
     LeadHours |-> LeadHours(bt, et),
     CLV_pct |-> CLV_pct(op, oc)]

DerivedRow(rs, i) ==
    WithDerived(i, rs[i],
                OddsOutcome(rs, i, "OddsPlaced").val,
                OddsOutcome(rs, i, "ClosingOdds").val,
                parse_dt(rs[i].BetTime), parse_dt(rs[i].EventTime))

Derive(rs) == [i \in 1..Len(rs) |-> DerivedRow(rs, i)]

\* ----- dropna (line 108) ------------------------------------------------
\* pandas isna: NaN / NaT / missing cell.  An infinity or a text is not NA.
IsNAStake(st) == st.kind = "missing"

HasNA(r) ==
    \/ IsNaN(r.OddsPlaced_dec)
    \/ IsNaN(r.ClosingOdds_dec)
    \/ IsNAStake(r.Stake)
    \/ IsNaN(r.LeadHours)
    \/ IsNaN(r.CLV_pct)

RECURSIVE SelectRows(_, _)
SelectRows(f, i) ==
    IF i > Len(f) THEN <<>>
    ELSE IF HasNA(f[i]) THEN SelectRows(f, i + 1)
    ELSE <<f[i]>> \o SelectRows(f, i + 1)

dropna(f) == SelectRows(f, 1)

\* ------------------------------------------------------------------------
\* Series statistics (pandas on numpy).  A sum of fewer than eight values is
\* taken from the left, one value at a time, each partial sum rounded.
\* ------------------------------------------------------------------------
RECURSIVE SumTo(_, _)
SumTo(xs, k) == IF k = 0 THEN Zero ELSE Add(SumTo(xs, k - 1), xs[k])

\* Series.sum()
Sum(xs) == SumTo(xs, Len(xs))

\* Series.mean(): the sum divided by the count
Mean(xs) == Div(Sum(xs), FromInt(Len(xs)))

\* (avg - values) ** 2, value by value
Square(x) == Mul(x, x)
SqDev(xs, avg) == Tuple([i \in 1..Len(xs) |-> Square(Sub(avg, xs[i]))])

\* Series.std(): sample standard deviation (ddof = 1) in two passes, the
\* mean first and then the squared deviations from it; NaN for one value.
Std(xs) ==
    IF Len(xs) < 2 THEN NaN
    ELSE Sqrt(Div(Sum(SqDev(xs, Mean(xs))), FromInt(Len(xs) - 1)))

\* (p ** 2).sum() over the values S that are left, p = counts / counts.sum(),
\* in the order of value_counts: the largest count first.  Values of equal
\* count give equal terms, whose order does not change the sum.
RECURSIVE SumSquaredShares(_, _, _, _)

\* how many of the cells present hold v
CountOf(series, present, v) == Cardinality({i \in present : series[i] = v})

\* a value of S of the largest count
MostFrequent(series, present, S) ==
    CHOOSE x \in S : \A y \in S : CountOf(series, present, y) <= CountOf(series, present, x)

\* p ** 2 for the share p of v
SquaredShare(series, present, v) ==
    Square(Div(FromInt(CountOf(series, present, v)), FromInt(Cardinality(present))))

AddShare(series, present, S, acc, v) ==
    SumSquaredShares(series, present, S \ {v}, Add(acc, SquaredShare(series, present, v)))

SumSquaredShares(series, present, S, acc) ==
    IF S = {} THEN acc
    ELSE AddShare(series, present, S, acc, MostFrequent(series, present, S))

\* (p ** 2).sum() over the cells present
HerfindahlOver(series, present) ==
    SumSquaredShares(series, present, {series[i] : i \in present}, Zero)

\* value_counts(dropna=True): missing cells are left out.
herfindahl_dropna(series) ==
    HerfindahlOver(series, {i \in 1..Len(series) : series[i] # ""})

\* herfindahl (lines 68-71): value_counts(dropna=False) counts the missing
\* cells as one more value; p = counts / counts.sum(); (p ** 2).sum()
herfindahl(series) == HerfindahlOver(series, 1..Len(series))

Col(f, name) == Tuple([i \in 1..Len(f) |-> f[i][name]])
StakeValues(f) == Tuple([i \in 1..Len(f) |-> FromInt(f[i].Stake.v)])

\* (df["CLV_pct"] > 0).mean(): the count of True over the count of rows
PosRate(f) ==
    Div(FromInt(Cardinality({i \in 1..Len(f) : Gt(f[i].CLV_pct, Zero)})),
        FromInt(Len(f)))

\* mean + 1e-9
Eps == Flt(1, 1000000000)
PlusEps(m) == Add(m, Eps)

\* metrics (lines 114-120)
Metrics(f) ==
    [avg_clv |-> Mean(Col(f, "CLV_pct")),
     pos_clv_rate |-> PosRate(f),
     stake_cv |-> Mul(Div(Std(StakeValues(f)), PlusEps(Mean(StakeValues(f)))),
                      Hundred),
     market_hhi |-> herfindahl(Col(f, "MarketType")),
     book_hhi |-> herfindahl(Col(f, "Book")),
     lead_mean |-> Mean(Col(f, "LeadHours")),
     lead_std |-> Std(Col(f, "LeadHours"))]

\* ------------------------------------------------------------------------
\* Risk score (lines 73-74, 122-144)
\* ------------------------------------------------------------------------
\* Python's min(a, b) / max(a, b): the first argument unless the second is
\* strictly smaller / larger; a NaN never is.
PyMin(a, b) == IF Lt(b, a) THEN b ELSE a
PyMax(a, b) == IF Gt(b, a) THEN b ELSE a

clamp01_lower_only(v) == PyMax(Zero, v)

clamp01(v) == PyMax(Zero, PyMin(One, v))

Risks(m) ==
    [clv |-> clamp01(Div(Sub(m.avg_clv, One), FromInt(4))),
     posclv |-> clamp01(Div(Sub(m.pos_clv_rate, Flt(55, 100)), Flt(25, 100))),
     stake |-> clamp01(Div(Sub(FromInt(12), PyMin(m.stake_cv, FromInt(30))),
                           FromInt(12))),
     market |-> clamp01(Div(Sub(m.market_hhi, Flt(20, 100)), Flt(60, 100))),
     book |-> clamp01(Div(Sub(m.book_hhi, Flt(25, 100)), Flt(60, 100))),
     lead_mean |-> clamp01(Div(Sub(m.lead_mean, FromInt(12)), FromInt(48))),
     lead_std |-> clamp01(Div(Sub(FromInt(6), PyMin(m.lead_std, FromInt(24))),
                              FromInt(6)))]

RiskNames == <<"clv", "posclv", "stake", "market", "book", "lead_mean", "lead_std">>

weights ==
    [clv |-> Flt(28, 100), posclv |-> Flt(12, 100), stake |-> Flt(16, 100),
     market |-> Flt(14, 100), book |-> Flt(10, 100), lead_mean |-> Flt(10, 100),
     lead_std |-> Flt(10, 100)]

\* the first k terms of risk_01 (lines 135-143), added from the left
RECURSIVE WeightedSum(_, _)
WeightedSum(r, k) ==
    IF k = 1 THEN Mul(weights[RiskNames[1]], r[RiskNames[1]])
    ELSE Add(WeightedSum(r, k - 1), Mul(weights[RiskNames[k]], r[RiskNames[k]]))

risk_01(r) == WeightedSum(r, Len(RiskNames))

\* round(100.0 * risk_01, 1) (line 144), in tenths of a point
RiskScore(r) == RoundTenths(Mul(Hundred, risk_01(r)))

\* ------------------------------------------------------------------------
\* Recommendations (lines 196-216)
\* ------------------------------------------------------------------------
Threshold == Flt(6, 10)

RECURSIVE RecsFrom_inclusive(_, _)
RecsFrom_inclusive(r, i) ==
    IF i > Len(RiskNames) THEN <<>>
    ELSE (IF Ge(r[RiskNames[i]], Threshold) THEN <<RiskNames[i]>> ELSE <<>>)
         \o RecsFrom_inclusive(r, i + 1)

RECURSIVE RecsFrom(_, _)
RecsFrom(r, i) ==
    IF i > Len(RiskNames) THEN <<>>
    ELSE (IF Gt(r[RiskNames[i]], Threshold) THEN <<RiskNames[i]>> ELSE <<>>)
         \o RecsFrom(r, i + 1)

Recs_inclusive(r) == RecsFrom_inclusive(r, 1)

Recs(r) == RecsFrom(r, 1)

\* st.success(neutral message) when recs is empty, else one st.write per rec
Display(rc) == IF rc = <<>> THEN <<"recreational">> ELSE rc

\* ------------------------------------------------------------------------
\* Inputs
\* ------------------------------------------------------------------------
MaxRows == 2
MaxCategoryRows == 3
MaxStakeRows == 3

\* Numerals, in hundredths: around 0, the decimal window [1.01, 100.0] and
\* the American range.
Numerals ==
    {0, 1, 50, 99, 100, 101, 102, 150, 183, 191, 205, 210, 5000, 9999, 10000,
     10001, 10050, 11000, 11500, 12000, 12500, 20000}

OddsTexts ==
    {Txt(sg, "num", h) : sg \in {"", "+", "-"}, h \in Numerals}
    \cup {Txt(sg, k, 0) : sg \in {"", "+", "-"}, k \in {"inf", "nan", "abc", "empty"}}

Plus110 == Num("+", 11000)
Minus120 == Num("-", 12000)
Dec205 == Num("", 205)
Plus0 == Num("+", 0)
Abc == Txt("", "abc", 0)
Inf == Txt("", "inf", 0)

Dt(t) == [kind |-> "dt", t |-> t]
BadTime == [kind |-> "bad", t |-> 0]
NumStake(v) == [kind |-> "num", v |-> v]
MissingStake == [kind |-> "missing", v |-> 0]
TextStake == [kind |-> "text", v |-> 0]

BaseRow ==
    [Book |-> "Bet99", MarketType |-> "Moneyline",
     OddsPlaced |-> Plus110, ClosingOdds |-> Minus120,
     Stake |-> NumStake(50), BetTime |-> Dt(0), EventTime |-> Dt(390)]

ValidOdds == {Plus110, Minus120, Dec205}
OddOdds == {Plus0, Abc, Inf}

OddsRows ==
    {[BaseRow EXCEPT !.OddsPlaced = p, !.ClosingOdds = c] :
        p \in ValidOdds, c \in ValidOdds}
    \cup {[BaseRow EXCEPT !.OddsPlaced = p] : p \in OddOdds}
    \cup {[BaseRow EXCEPT !.ClosingOdds = c] : c \in OddOdds}
    \cup {[BaseRow EXCEPT !.OddsPlaced = Plus0, !.ClosingOdds = Plus0],
          [BaseRow EXCEPT !.OddsPlaced = Inf, !.ClosingOdds = Inf]}

StakeRows ==
    {[BaseRow EXCEPT !.Stake = st] :
        st \in {NumStake(50), NumStake(55), NumStake(0), MissingStake, TextStake}}

\* Three stakes whose coefficient of variation is 4.8 but for the 1e-9 of
\* line 116: the stake sub-risk is just above 0.6 because of it.
CloseStakeRows ==
    {[BaseRow EXCEPT !.Stake = NumStake(v)] : v \in {119, 125, 131}}

TimeRows ==
    {[BaseRow EXCEPT !.BetTime = b, !.EventTime = e] :
        <<b, e>> \in {<<Dt(0), Dt(390)>>, <<Dt(0), Dt(480)>>, <<Dt(0), Dt(2448)>>,
                      <<Dt(600), Dt(390)>>, <<BadTime, Dt(390)>>, <<Dt(0), BadTime>>}}

CategoryRows ==
    {[BaseRow EXCEPT !.Book = b, !.MarketType = m] :
        <<b, m>> \in {<<"Bet99", "Moneyline">>, <<"FanDuel", "Moneyline">>,
                      <<"Bet99", "Totals">>, <<"Bet365", "AltSpread">>,
                      <<"", "Moneyline">>, <<"Bet99", "">>}}

\* Rows 2 and 3 of the sample CSV (lines 82-83), times in minutes from
\* 2025-10-09 00:00.
SampleRows ==
    {[Book |-> "Bet99", MarketType |-> "Moneyline",
      OddsPlaced |-> Minus120, ClosingOdds |-> Num("-", 11500),
      Stake |-> NumStake(55), BetTime |-> Dt(2285), EventTime |-> Dt(2640)],
     [Book |-> "FanDuel", MarketType |-> "AltSpread",
      OddsPlaced |-> Dec205, ClosingOdds |-> Num("", 198),
      Stake |-> NumStake(50), BetTime |-> Dt(600), EventTime |-> Dt(2610)]}

WideRows == OddsRows \cup StakeRows \cup TimeRows \cup CategoryRows \cup SampleRows

\* the sequences of at most n members of S; <<>> is a CSV of its header line
\* alone
SeqsUpTo(S, n) == {<<>>} \cup UNION {[1..k -> S] : k \in 1..n}

Datasets ==
    SeqsUpTo(WideRows, MaxRows)
        \cup SeqsUpTo(CategoryRows, MaxCategoryRows)
        \cup SeqsUpTo(CloseStakeRows, MaxStakeRows)

ColumnSets ==
    {AllColumns} \cup {AllColumns \ {c} : c \in AllColumns}
    \cup {AllColumns \ {"Stake", "BetTime"}}

\* ------------------------------------------------------------------------
\* State machine
\* ------------------------------------------------------------------------
Pending == [exc |-> "pending", val |-> NaN]
NoText == Txt("", "empty", 0)
NoMetrics ==
    [avg_clv |-> NaN, pos_clv_rate |-> NaN, stake_cv |-> NaN, market_hhi |-> NaN,
     book_hhi |-> NaN, lead_mean |-> NaN, lead_std |-> NaN]
NoRisks == [k \in {RiskNames[i] : i \in 1..Len(RiskNames)} |-> NaN]

PipelineIdle ==
    /\ pc = "upload"
    /\ columns = {}
    /\ rows = <<>>
    /\ df = <<>>
    /\ missing = <<>>
    /\ metrics = NoMetrics
    /\ risks = NoRisks
    /\ risk_score = -1
    /\ recs = <<>>
    /\ shown = <<>>

pipeVars == <<pc, columns, rows, df, missing, metrics, risks, risk_score, recs, shown>>

Init ==
    /\ raw = NoText
    /\ decimal = Pending
    /\ PipelineIdle

\* line 93: df = pd.read_csv(file)
ReadCsv ==
    /\ pc = "upload"
    /\ \E cols \in ColumnSets, rs \in Datasets :
          /\ cols # AllColumns => (Len(rs) = 0 \/ (Len(rs) = 1 /\ rs[1] \in WideRows))
          /\ columns' = cols
          /\ rows' = rs
    /\ pc' = "loaded"
    /\ UNCHANGED <<raw, decimal, df, missing, metrics, risks, risk_score, recs, shown>>

\* lines 95-99: required columns check
MissingColumns(cols) == SelectSeq(required, LAMBDA c : c \notin cols)

CheckColumns ==
    /\ pc = "loaded"
    /\ missing' = MissingColumns(columns)
    /\ IF missing' # <<>>
       THEN /\ shown' = <<"Missing required columns">>
            /\ pc' = "stopped_missing"
       ELSE /\ shown' = shown
            /\ pc' = "checked"
    /\ UNCHANGED <<raw, decimal, columns, rows, df, metrics, risks, risk_score, recs>>

\* lines 101-106: the derived columns; a CSV of a header line alone stops
\* here with an uncaught AttributeError
DeriveColumns ==
    /\ pc = "checked"
    /\ IF DeriveRaises(rows)
       THEN /\ pc' = "uncaught_error"
            /\ df' = df
       ELSE /\ pc' = "derived"
            /\ df' = Derive(rows)
    /\ UNCHANGED <<raw, decimal, columns, rows, missing, metrics, risks, risk_score,
                   recs, shown>>

\* line 108: df = df.dropna(subset=[...])
DropNa ==
    /\ pc = "derived"
    /\ df' = dropna(df)
    /\ pc' = "cleaned"
    /\ UNCHANGED <<raw, decimal, columns, rows, missing, metrics, risks, risk_score,
                   recs, shown>>

\* lines 109-111: empty dataset check
IsEmpty_never(f) == FALSE

IsEmpty(f) == f = <<>>

EmptyCheck ==
    /\ pc = "cleaned"
    /\ IF IsEmpty(df)
       THEN /\ shown' = <<"No valid rows after cleaning">>
            /\ pc' = "stopped_empty"
       ELSE /\ shown' = shown
            /\ pc' = "nonempty"
    /\ UNCHANGED <<raw, decimal, columns, rows, df, missing, metrics, risks,
                   risk_score, recs>>

\* lines 114-120: metrics.  Series.std() of a text column raises TypeError.
MetricsRaise(rs) == ~StakeColumnNumeric(rs)

ComputeMetrics ==
    /\ pc = "nonempty"
    /\ IF MetricsRaise(rows)
       THEN /\ pc' = "uncaught_error"
            /\ metrics' = metrics
       ELSE /\ pc' = "metrics"
            /\ metrics' = Metrics(df)
    /\ UNCHANGED <<raw, decimal, columns, rows, df, missing, risks, risk_score,
                   recs, shown>>

\* lines 122-144: sub-risks and composite score
ComputeRisks ==
    /\ pc = "metrics"
    /\ risks' = Risks(metrics)
    /\ risk_score' = RiskScore(risks')
    /\ pc' = "scored"
    /\ UNCHANGED <<raw, decimal, columns, rows, df, missing, metrics, recs, shown>>

\* lines 146-190: KPIs and charts.  ax.hist (line 165) raises ValueError on
\* a value that is not finite (the bin range is taken from the data); the
\* bar plot of an empty value_counts() (lines 186-188) raises IndexError.
\* Stake and LeadHours of a kept row are finite.
ChartsRaise(f) ==
    \/ \E i \in 1..Len(f) : ~IsFinite(f[i].CLV_pct)
    \/ \A i \in 1..Len(f) : f[i].MarketType = ""

Charts ==
    /\ pc = "scored"
    /\ pc' = IF ChartsRaise(df) THEN "uncaught_error" ELSE "charted"
    /\ UNCHANGED <<raw, decimal, columns, rows, df, missing, metrics, risks,
                   risk_score, recs, shown>>

\* lines 196-216: recommendations
Recommend ==
    /\ pc = "charted"
    /\ recs' = Recs(risks)
    /\ shown' = Display(recs')
    /\ pc' = "done"
    /\ UNCHANGED <<raw, decimal, columns, rows, df, missing, metrics, risks,
                   risk_score>>

Next ==
    \/ ReadCsv
    \/ CheckColumns
    \/ DeriveColumns
    \/ DropNa
    \/ EmptyCheck
    \/ ComputeMetrics
    \/ ComputeRisks
    \/ Charts
    \/ Recommend

Spec == Init /\ [][Next]_vars

\* ----- the normaliser on its own ----------------------------------------
InitNormalize ==
    /\ raw \in OddsTexts
    /\ decimal = Pending
    /\ PipelineIdle

Normalize ==
    /\ decimal = Pending
    /\ decimal' = american_or_decimal(raw)
    /\ UNCHANGED <<raw, pipeVars>>

NextNormalize == Normalize

SpecNormalize == InitNormalize /\ [][NextNormalize]_vars

\* ------------------------------------------------------------------------
\* Properties
\* ------------------------------------------------------------------------
Cleaned ==
    pc \in {"cleaned", "stopped_empty", "nonempty", "metrics", "scored", "charted",
            "done"}
Scored == pc \in {"scored", "charted", "done"}

\* Two doubles agree to nine decimals.
Tolerance == Flt(1, 1000000000)
Near(x, y) == Le(FAbs(Sub(x, y)), Tolerance)

\* The decision order of the odds normaliser, as one flat rule.
Invalid == NaN
DecisionOn(s, v) ==
    IF s.sign = "-"
    THEN (IF IsZero(v) THEN Invalid ELSE Add(One, Div(Hundred, FAbs(v))))
    ELSE IF Le(Flt(101, 100), v) /\ Le(v, FromInt(100)) THEN v
    ELSE IF s.sign = "+" THEN Add(One, Div(v, Hundred))
    ELSE IF Lt(v, Zero) THEN Add(One, Div(Hundred, FAbs(v)))
    ELSE IF Ge(v, FromInt(100)) THEN Add(One, Div(v, Hundred))
    ELSE Invalid

DecisionOrder(s) ==
    IF FloatOf(s).exc # "" THEN Invalid ELSE DecisionOn(s, FloatOf(s).val)

\* C1: for every raw odds text, american_or_decimal returns the value of the
\* decision order ('-' first, then the decimal window [1.01, 100.0] even for
\* '+' texts, then '+', then negative, then >= 100, else Invalid; an
\* unparseable text or an undefined quotient is Invalid).  "+110" gives the
\* double 2.1, "-120" gives 1.8333... (the double of 1 + 100/120, which is
\* 11/6 to nine decimals), "2.05" gives the double 2.05, "abc" gives Invalid,
\* "-1.5" is not returned as a decimal but as the double of 203/3, and "+50"
\* gives 50.
C1_DecisionOrder ==
    decimal # Pending =>
        /\ decimal = Ok(DecisionOrder(raw))
        /\ raw = Num("+", 11000) => decimal.val = Flt(210, 100)
        /\ raw = Num("-", 12000) =>
              /\ Near(decimal.val, Flt(11, 6))
              /\ decimal.val = Add(One, Flt(100, 120))
        /\ raw = Num("", 205) => decimal.val = Flt(205, 100)
        /\ raw = Txt("", "abc", 0) => IsNaN(decimal.val)
        /\ raw = Num("-", 150) => decimal.val = Flt(203, 3)
        /\ raw = Num("+", 5000) => decimal.val = FromInt(50)

C1_Witness ==
    /\ raw = Num("+", 5000)
    /\ decimal = Ok(FromInt(50))

\* C2: every record that survives cleaning has oddsPlacedDecimal > 1.0 and
\* closingOddsDecimal > 1.0.
C2_OddsAboveOne ==
    Cleaned =>
        \A i \in 1..Len(df) :
            /\ Gt(df[i].OddsPlaced_dec, One)
            /\ Gt(df[i].ClosingOdds_dec, One)

\* C3: cleaning keeps exactly the records whose odds are both valid, whose
\* stake is numeric, whose timestamps both parse and whose CLV is finite, in
\* input order; every kept record has finite derived fields and a numeric
\* stake.
KeptRow(i, r) ==
    /\ ~IsNaN(r.OddsPlaced_dec)
    /\ ~IsNaN(r.ClosingOdds_dec)
    /\ r.Stake.kind = "num"
    /\ rows[i].BetTime.kind = "dt"
    /\ rows[i].EventTime.kind = "dt"
    /\ IsFinite(r.CLV_pct)

KeptByRule(i) == KeptRow(i, Derive(rows)[i])

C3_DropRule ==
    Cleaned =>
        /\ {df[k].src : k \in 1..Len(df)} = {i \in 1..Len(rows) : KeptByRule(i)}
        /\ \A k \in 1..Len(df) - 1 : df[k].src < df[k + 1].src
        /\ \A k \in 1..Len(df) :
              /\ IsFinite(df[k].OddsPlaced_dec)
              /\ IsFinite(df[k].ClosingOdds_dec)
              /\ df[k].Stake.kind = "num"
              /\ IsFinite(df[k].LeadHours)
              /\ IsFinite(df[k].CLV_pct)

\* C4: metrics, scoring and recommendations are reached only when no required
\* column is missing and at least one record survived cleaning; a missing
\* required column (any of the eight, not Result) stops the run with the
\* list of missing columns before any row is normalised; a run whose rows are
\* all dropped stops with the 'no valid rows' message before any metric.
EightRequired ==
    {"Book", "Sport", "MarketType", "OddsPlaced", "ClosingOdds", "Stake",
     "BetTime", "EventTime"}

C4_StagesGuarded ==
    /\ pc \in {"nonempty", "metrics", "scored", "charted", "done"} =>
          /\ EightRequired \subseteq columns
          /\ missing = <<>>
          /\ df # <<>>
    /\ (pc \notin {"upload", "loaded"} /\ ~(EightRequired \subseteq columns)) =>
          /\ pc = "stopped_missing"
          /\ shown = <<"Missing required columns">>
          /\ {missing[i] : i \in 1..Len(missing)} = EightRequired \ columns
          /\ df = <<>>
          /\ metrics = NoMetrics
    /\ (pc \in {"stopped_empty", "nonempty", "metrics", "scored", "charted", "done"}
        /\ df = <<>>) =>
          /\ pc = "stopped_empty"
          /\ shown = <<"No valid rows after cleaning">>
          /\ metrics = NoMetrics
          /\ risks = NoRisks
    /\ (pc = "stopped_missing") => ~(EightRequired \subseteq columns)
    /\ (pc = "stopped_empty") => df = <<>>

C4_Witness ==
    /\ pc = "stopped_empty"
    /\ Len(rows) = 2
    /\ columns = AllColumns

\* C5: for every non-empty cleaned dataset, each sub-risk lies in [0, 1] and
\* the composite score in [0, 100].
C5_Ranges ==
    Scored =>
        /\ \A i \in 1..Len(RiskNames) :
              /\ Le(Zero, risks[RiskNames[i]])
              /\ Le(risks[RiskNames[i]], One)
        /\ risk_score >= 0
        /\ risk_score <= 1000

C5_Witness ==
    /\ Scored
    /\ Len(df) = 1
    /\ Gt(risks.lead_mean, Zero)
    /\ Lt(risks.lead_mean, One)

\* C6: the recommendations are exactly the sub-risks strictly above 0.6, once
\* each, in the order clv, posclv, stake, market, book, leadMean, leadStd;
\* the neutral message is shown iff there is none, and never with an advisory.
FixedOrder == <<"clv", "posclv", "stake", "market", "book", "lead_mean", "lead_std">>
Position(name) == CHOOSE i \in 1..Len(FixedOrder) : FixedOrder[i] = name

C6_Recommendations ==
    pc = "done" =>
        /\ \A i \in 1..Len(FixedOrder) :
              (\E k \in 1..Len(recs) : recs[k] = FixedOrder[i])
                  <=> Gt(risks[FixedOrder[i]], Flt(6, 10))
        /\ \A k \in 1..Len(recs) - 1 : Position(recs[k]) < Position(recs[k + 1])
        /\ (shown = <<"recreational">>)
              <=> (\A i \in 1..Len(FixedOrder) : ~Gt(risks[FixedOrder[i]], Flt(6, 10)))
        /\ shown # <<"recreational">> =>
              (shown = recs /\ \A k \in 1..Len(shown) : shown[k] # "recreational")

\* The leadMean sub-risk is the double 0.6 itself and has no advisory.
C6_Witness ==
    /\ pc = "done"
    /\ risks.lead_mean = Flt(6, 10)
    /\ \A k \in 1..Len(recs) : recs[k] # "lead_mean"
    /\ Len(recs) >= 2

\* C7: for every record that survives cleaning, clvPercent is positive, zero
\* or negative exactly as closingOddsDecimal is above, equal to or below
\* oddsPlacedDecimal.
C7_ClvSign ==
    Cleaned =>
        \A i \in 1..Len(df) :
            /\ Gt(df[i].CLV_pct, Zero) <=> Gt(df[i].ClosingOdds_dec, df[i].OddsPlaced_dec)
            /\ df[i].CLV_pct = Zero <=> df[i].ClosingOdds_dec = df[i].OddsPlaced_dec
            /\ Lt(df[i].CLV_pct, Zero) <=> Lt(df[i].ClosingOdds_dec, df[i].OddsPlaced_dec)

C7_Witness ==
    /\ pc = "cleaned"
    /\ Len(df) = 2
    /\ Gt(df[1].CLV_pct, Zero)
    /\ Lt(df[2].CLV_pct, Zero)

\* C8: the Herfindahl index is the sum of squared shares of the record count
\* per distinct value, missing values being one group: 1 for a single
\* category, 1/N for N equally-sized categories.  The index is a double: it
\* is (sum of squared counts) / (count of records)^2, and 1/N for N
\* equally-sized categories, to nine decimals; it is 1.0 itself for a single
\* category, and the double nearest to these values for a frame of up to
\* four records (five categories of one record each sum to
\* 0.20000000000000004).
SumOfSquares(series) ==
    LET values == {series[i] : i \in 1..Len(series)}
        count(v) == Cardinality({i \in 1..Len(series) : series[i] = v})
        F[S \in SUBSET values] ==
            IF S = {} THEN 0
            ELSE LET v == CHOOSE x \in S : TRUE
                 IN  count(v) * count(v) + F[S \ {v}]
    IN  F[values]

EquallySized(series) ==
    \A i, j \in 1..Len(series) :
        Cardinality({k \in 1..Len(series) : series[k] = series[i]})
            = Cardinality({k \in 1..Len(series) : series[k] = series[j]})

HerfindahlIs(hhi, series, N) ==
    /\ Near(hhi, Flt(SumOfSquares(series), Len(series) * Len(series)))
    /\ N = 1 => hhi = One
    /\ EquallySized(series) => Near(hhi, Flt(1, N))
    /\ Len(series) <= 4 =>
          /\ hhi = Flt(SumOfSquares(series), Len(series) * Len(series))
          /\ EquallySized(series) => hhi = Flt(1, N)

C8_HerfindahlOf(hhi, series) ==
    HerfindahlIs(hhi, series, Cardinality({series[i] : i \in 1..Len(series)}))

C8_Herfindahl ==
    pc \in {"metrics", "scored", "charted", "done"} =>
        /\ C8_HerfindahlOf(metrics.market_hhi, Col(df, "MarketType"))
        /\ C8_HerfindahlOf(metrics.book_hhi, Col(df, "Book"))

C8_Witness ==
    /\ pc = "metrics"
    /\ Len(df) = 3
    /\ \E i \in 1..3 : df[i].MarketType = ""
    /\ metrics.market_hhi = Flt(1, 3)
    /\ metrics.book_hhi = One

\* C9: no exception escapes: a run over a dataset with all required columns
\* ends with a result or with the 'no valid rows' message.
C9_NoUncaughtError == pc # "uncaught_error"

\* risk_01 without the stake and leadStd terms, added from the left
OtherRisk(r) ==
    Add(Add(Add(Add(Mul(weights.clv, r.clv), Mul(weights.posclv, r.posclv)),
                Mul(weights.market, r.market)),
            Mul(weights.book, r.book)),
        Mul(weights.lead_mean, r.lead_mean))

\* C10: with exactly one cleaned record the sample standard deviations are
\* undefined, the scorer still produces a score, the stake and leadStd
\* sub-risks are both 1.0, they add 26 points to the score (the score is 26.0
\* plus the points of the five other sub-risks, to a tenth of rounding), and
\* both advisory strings are triggered: the run of a one-record frame ends
\* with the two advisories shown.
C10_SingleRecord ==
    /\ (Len(df) = 1 /\ pc \in {"metrics", "scored", "charted", "done"}) =>
          /\ IsNaN(metrics.stake_cv)
          /\ IsNaN(metrics.lead_std)
          /\ Scored =>
                /\ risks.stake = One
                /\ risks.lead_std = One
                /\ risk_score >= 260
                /\ risk_score - (260 + RoundTenths(Mul(Hundred, OtherRisk(risks))))
                      \in {-1, 0, 1}
    /\ (Len(df) = 1 /\ pc \in {"done", "uncaught_error"}) =>
          /\ risk_score >= 260
          /\ \E k \in 1..Len(recs) : recs[k] = "stake"
          /\ \E k \in 1..Len(recs) : recs[k] = "lead_std"
          /\ shown = recs

====
